---------------------------- MODULE Spec2Model ----------------------------
(***************************************************************************)
(* Model of the background-editing UI (src/App.tsx) and of the single API  *)
(* call behind it (src/services/geminiService.ts).                         *)
(*                                                                         *)
(* Strings are modelled as sequences of chunks (a chunk is an indivisible  *)
(* piece of text); concatenation is \o, the empty string is << >>.  Mime   *)
(* types and user prompts are spelled character by character so that       *)
(* startsWith and trim work on them as they do in the code.  A value that  *)
(* may be null or undefined is an option: None, or Some(v).  The Latvian   *)
(* messages are written without diacritics.                                *)
(***************************************************************************)
EXTENDS Naturals, Sequences, FiniteSets

VARIABLES
    mode,             \* App.tsx:61
    originalImage,    \* App.tsx:62  (a file id, or Null)
    backgroundImage,  \* App.tsx:63  (a file id, or Null)
    prompt,           \* App.tsx:64
    resultImage,      \* App.tsx:65  (option of a data URI)
    isLoading,        \* App.tsx:66
    error,            \* App.tsx:67  (option of a message)
    apiKey,           \* geminiService.ts:30  process.env.API_KEY is set
    calls,            \* the handleProcessImage invocations suspended at an await
    last              \* how the latest click ended (its promise once settled)

vars == <<mode, originalImage, backgroundImage, prompt, resultImage,
          isLoading, error, apiKey, calls, last>>

---------------------------------------------------------------------------
(* Bounds of the model *)

MaxPromptLen == 1
MaxParts == 2
MaxInFlight == 2

---------------------------------------------------------------------------
(* Values *)

None == << >>
Some(v) == <<v>>
Null == "null"

TRANSPARENT == "TRANSPARENT"
AI_BACKGROUND == "AI_BACKGROUND"
CUSTOM_BACKGROUND == "CUSTOM_BACKGROUND"
OperationMode == {TRANSPARENT, AI_BACKGROUND, CUSTOM_BACKGROUND}

MsgNoOriginal == "Ludzu, augsupieladejiet sakotnejo attelu."
MsgNoPrompt == "Ludzu, ievadiet aprakstu jaunajam fonam."
MsgNoBackground == "Ludzu, augsupieladejiet fona attelu."
MsgUnexpected == "Notika neparedzeta kluda."
MsgNoApiKey == "API_KEY environment variable not set"
MsgNoImage == "API neatgrieza attelu. Ludzu, meginiet velreiz ar citu attelu vai uzvedni."

TransparentPrompt ==
    <<"Isolate the main subject from the image and make the background transparent. The output should be a PNG image with a transparent background.">>
AiPromptHead == <<"Replace the background of the image with the following scene: ">>
AiPromptTail == <<". Keep the main subject from the original image.">>
CustomPrompt ==
    <<"Take the main subject from the first image and place it realistically onto the background provided in the second image. Blend the subject with the new background, matching lighting and perspective.">>

ImagePrefix == <<"i", "m", "a", "g", "e", "/">>
ImagePng == ImagePrefix \o <<"p", "n", "g">>
ImageJpeg == ImagePrefix \o <<"j", "p", "e", "g">>
TextPlain == <<"t", "e", "x", "t", "/", "p", "l", "a", "i", "n">>

(* The files the user can pick: their type and what FileReader.readAsDataURL *)
(* leaves in reader.result (None when the read fails).                       *)
FileIds == {"photo.png", "scan.jpg"}

FileType(f) == IF f = "photo.png" THEN ImagePng ELSE ImageJpeg

FileReaderResult(f) ==
    IF f = "photo.png"
    THEN Some(<<"data:">> \o ImagePng \o <<";base64", ",", "QUJD">>)
    ELSE None

(* What the user can type into the textarea. *)
Whitespace == {" ", "\n", "\t"}
PromptChars == {" ", "a"}
Prompts == UNION {[1..n -> PromptChars] : n \in 0..MaxPromptLen}


(* The errors generateContent can reject with: e.message is a non-empty    *)
(* string, the empty string, or undefined.                                 *)
ApiErrors ==
    {[message |-> Some("Network error")], [message |-> Some("")], [message |-> None]}

(* Parts of a response (@google/genai Part): text and inlineData are       *)
(* options.                                                                *)
TextPart == [text |-> Some(<<"done">>), inlineData |-> None]
PngPart ==
    [text |-> None, inlineData |-> Some([mimeType |-> ImagePng, data |-> Some(<<"AAAA">>)])]
JpegPart ==
    [text |-> None, inlineData |-> Some([mimeType |-> ImageJpeg, data |-> Some(<<"BBBB">>)])]
PlainPart ==
    [text |-> None, inlineData |-> Some([mimeType |-> TextPlain, data |-> Some(<<"CCCC">>)])]
PartKinds == {TextPart, PngPart, JpegPart, PlainPart}
PartLists == UNION {[1..n -> PartKinds] : n \in 0..MaxParts}

Candidate(ps) == [content |-> Some([parts |-> Some(ps)])]

(* The responses generateContent can resolve with. *)
Responses ==
    {[candidates |-> None],
     [candidates |-> Some(<< >>)],
     [candidates |-> Some(<<[content |-> None]>>)],
     [candidates |-> Some(<<[content |-> None], Candidate(<<PngPart>>)>>)],
     [candidates |-> Some(<<[content |-> Some([parts |-> None])]>>)]}
    \cup {[candidates |-> Some(<<Candidate(ps)>>)] : ps \in PartLists}
    \cup {[candidates |-> Some(<<Candidate(<<p>>), Candidate(<<JpegPart>>)>>)] : p \in PartKinds}

---------------------------------------------------------------------------
(* String helpers *)

startsWith(s, p) == Len(s) >= Len(p) /\ SubSeq(s, 1, Len(p)) = p

RECURSIVE trimStart(_)
trimStart(s) ==
    IF s # << >> /\ Head(s) \in Whitespace THEN trimStart(Tail(s)) ELSE s

RECURSIVE trimEnd(_)
trimEnd(s) ==
    IF s # << >> /\ s[Len(s)] \in Whitespace
    THEN trimEnd(SubSeq(s, 1, Len(s) - 1))
    ELSE s

trim(s) == trimEnd(trimStart(s))

(* s.split(sep) for a one-chunk separator: the pieces between separators. *)
RECURSIVE split(_, _)
split(s, sep) ==
    IF \E i \in 1..Len(s) : s[i] = sep
    THEN LET i == CHOOSE k \in 1..Len(s) :
                      s[k] = sep /\ \A j \in 1..(k - 1) : s[j] # sep
         IN <<SubSeq(s, 1, i - 1)>> \o split(SubSeq(s, i + 1, Len(s)), sep)
    ELSE <<s>>

(* `${v}` of a value that may be undefined. *)
templateString(v) == IF v = None THEN <<"undefined">> ELSE v[1]

---------------------------------------------------------------------------
(* geminiService.ts *)

(* fileToGenerativePart: the base64 text after the comma of the data URL,  *)
(* '' when the read left no result, undefined when there is no comma.      *)
fileToGenerativePart(file) ==
    LET result == FileReaderResult(file)
        base64EncodedData ==
            IF result # None
            THEN LET pieces == split(result[1], ",")
                 IN IF Len(pieces) >= 2 THEN Some(pieces[2]) ELSE None
            ELSE Some(<< >>)
    IN [text |-> None,
        inlineData |-> Some([data |-> base64EncodedData, mimeType |-> FileType(file)])]

textPart(p) == [text |-> Some(p), inlineData |-> None]

(* response.candidates?.[0]?.content?.parts || [] *)
responseParts(response) ==
    IF response.candidates = None THEN << >>
    ELSE LET candidates == response.candidates[1]
         IN IF Len(candidates) = 0 THEN << >>
            ELSE IF candidates[1].content = None THEN << >>
            ELSE IF candidates[1].content[1].parts = None THEN << >>
            ELSE candidates[1].content[1].parts[1]

dataUri(inlineData) ==
    <<"data:">> \o inlineData.mimeType \o <<";base64,">> \o templateString(inlineData.data)

(* Mutant: the loop keeps the last image part instead of returning at the  *)
(* first one.                                                              *)
RECURSIVE scanPartsLast(_)
scanPartsLast(parts) ==
    IF parts = << >> THEN None
    ELSE LET part == parts[Len(parts)]
         IN IF part.inlineData # None /\ startsWith(part.inlineData[1].mimeType, ImagePrefix)
            THEN Some(dataUri(part.inlineData[1]))
            ELSE scanPartsLast(SubSeq(parts, 1, Len(parts) - 1))

(* Mutant: the loop takes any inlineData, whatever its mime type. *)
RECURSIVE scanPartsAnyInline(_)
scanPartsAnyInline(parts) ==
    IF parts = << >> THEN None
    ELSE LET part == Head(parts)
         IN IF part.inlineData # None
            THEN Some(dataUri(part.inlineData[1]))
            ELSE scanPartsAnyInline(Tail(parts))

(* The loop of processImage over the parts: Some(data URI) of the first    *)
(* image part, None when the loop ends without returning.                  *)
RECURSIVE scanParts(_)
scanParts(parts) ==
    IF parts = << >> THEN None
    ELSE LET part == Head(parts)
         IN IF part.inlineData # None /\ startsWith(part.inlineData[1].mimeType, ImagePrefix)
            THEN Some(dataUri(part.inlineData[1]))
            ELSE scanParts(Tail(parts))


(* parts.push(backgroundImagePart) *)
pushBackground(parts, backgroundImagePart) == Append(parts, backgroundImagePart)

(* Mutant: the text part is put in front of the images. *)
pushTextFirst(parts, p) == <<textPart(p)>> \o parts

(* parts.push({ text: prompt }) *)
pushText(parts, p) == Append(parts, textPart(p))

(* ai.models.generateContent({ contents: { parts } }): the call is now     *)
(* waiting for the API.                                                    *)
generateContent(c, parts) ==
    [c EXCEPT !.pc = "generate", !.parts = parts,
              !.request = Some(parts), !.sent = c.sent + 1]

---------------------------------------------------------------------------
(* App.tsx *)

(* Mutant: the button ignores isLoading. *)
isProcessButtonDisabledNoLoading == originalImage = Null

isProcessButtonDisabled == originalImage = Null \/ isLoading

(* Mutant: onImageUpload is called with files[0] even when there is none. *)
handleFileChangeUnguarded(files, current) ==
    IF Len(files) > 0 THEN files[1] ELSE Null

(* ImageUploader.handleFileChange: the file the state holds afterwards. *)
handleFileChange(files, current) ==
    IF Len(files) > 0 THEN files[1] ELSE current

(* Mutant: the previous result is not cleared. *)
beginProcessingKeepResult ==
    [isLoading |-> TRUE, error |-> None, resultImage |-> resultImage]

(* setIsLoading(true); setError(null); setResultImage(null) *)
beginProcessing == [isLoading |-> TRUE, error |-> None, resultImage |-> None]

(* Mutant: the prompt is tested without trim(). *)
validationErrorNoTrim(m, p, bg) ==
    IF m = AI_BACKGROUND /\ p = << >> THEN Some(MsgNoPrompt)
    ELSE IF m = CUSTOM_BACKGROUND /\ bg = Null THEN Some(MsgNoBackground)
    ELSE None

(* The early returns of the switch: the message set, or None. *)
validationError(m, p, bg) ==
    IF m = AI_BACKGROUND /\ trim(p) = << >> THEN Some(MsgNoPrompt)
    ELSE IF m = CUSTOM_BACKGROUND /\ bg = Null THEN Some(MsgNoBackground)
    ELSE None

(* apiPrompt after the switch. *)
apiPromptFor(m, p) ==
    CASE m = TRANSPARENT -> TransparentPrompt
      [] m = AI_BACKGROUND -> AiPromptHead \o p \o AiPromptTail
      [] m = CUSTOM_BACKGROUND -> CustomPrompt

(* Mutant: the background image is passed in every mode. *)
bgImageForAnyMode(m, bg) == IF bg # Null THEN Some(bg) ELSE None

(* bgImage after the switch (None is undefined). *)
bgImageFor(m, bg) == IF m = CUSTOM_BACKGROUND THEN Some(bg) ELSE None

(* Mutant: ?? instead of ||, an empty message is kept. *)
errorMessageNullish(e) ==
    IF e.message = None THEN MsgUnexpected ELSE e.message[1]

(* e.message || 'Notika neparedzeta kluda.' *)
errorMessage(e) ==
    IF e.message = None \/ e.message = Some("") THEN MsgUnexpected ELSE e.message[1]

NoLast ==
    [state |-> "none", closure |-> None, value |-> None, reason |-> None,
     response |-> None, sent |-> 0]

remove(s, i) == SubSeq(s, 1, i - 1) \o SubSeq(s, i + 1, Len(s))

TypeOK ==
    /\ mode \in OperationMode
    /\ originalImage \in FileIds \cup {Null}
    /\ backgroundImage \in FileIds \cup {Null}
    /\ prompt \in Prompts
    /\ isLoading \in BOOLEAN
    /\ apiKey \in BOOLEAN
    /\ Len(resultImage) <= 1
    /\ Len(error) <= 1
    /\ Len(calls) <= MaxInFlight
    /\ last.state \in {"none", "noOriginal", "invalid", "fulfilled", "rejected"}

Init ==
    /\ mode = TRANSPARENT
    /\ originalImage = Null
    /\ backgroundImage = Null
    /\ prompt = << >>
    /\ resultImage = None
    /\ isLoading = FALSE
    /\ error = None
    /\ apiKey \in BOOLEAN
    /\ calls = << >>
    /\ last = NoLast

(* The user picks a file (or cancels the dialog) in the first uploader. *)
UploadOriginal(files) ==
    /\ originalImage' = handleFileChange(files, originalImage)
    /\ UNCHANGED <<mode, backgroundImage, prompt, resultImage, isLoading, error,
                   apiKey, calls, last>>

(* The second uploader is rendered in CUSTOM_BACKGROUND mode only. *)
UploadBackground(files) ==
    /\ mode = CUSTOM_BACKGROUND
    /\ backgroundImage' = handleFileChange(files, backgroundImage)
    /\ UNCHANGED <<mode, originalImage, prompt, resultImage, isLoading, error,
                   apiKey, calls, last>>

SetMode(m) ==
    /\ mode' = m
    /\ UNCHANGED <<originalImage, backgroundImage, prompt, resultImage, isLoading,
                   error, apiKey, calls, last>>

(* The textarea is rendered in AI_BACKGROUND mode only. *)
SetPrompt(p) ==
    /\ mode = AI_BACKGROUND
    /\ prompt' = p
    /\ UNCHANGED <<mode, originalImage, backgroundImage, resultImage, isLoading,
                   error, apiKey, calls, last>>

(* A click on the process button: handleProcessImage up to its await,      *)
(* processImage up to its first await, and the catch/finally that run      *)
(* before any other event when processImage throws at once.                *)
Click ==
    /\ ~isProcessButtonDisabled
    /\ Len(calls) < MaxInFlight
    /\ LET closure == [mode |-> mode, prompt |-> prompt,
                       originalImage |-> originalImage,
                       backgroundImage |-> backgroundImage]
           invalid == validationError(mode, prompt, backgroundImage)
           keyError == [message |-> Some(MsgNoApiKey)]
       IN IF originalImage = Null
          THEN /\ error' = Some(MsgNoOriginal)
               /\ last' = [NoLast EXCEPT !.state = "noOriginal"]
               /\ UNCHANGED <<resultImage, isLoading, calls>>
          ELSE IF invalid # None
          THEN /\ error' = invalid
               /\ isLoading' = FALSE
               /\ resultImage' = beginProcessing.resultImage
               /\ last' = [NoLast EXCEPT !.state = "invalid", !.closure = Some(closure)]
               /\ UNCHANGED calls
          ELSE IF ~apiKey
          THEN /\ error' = Some(errorMessage(keyError))
               /\ isLoading' = FALSE
               /\ resultImage' = beginProcessing.resultImage
               /\ last' = [NoLast EXCEPT !.state = "rejected", !.reason = Some(keyError)]
               /\ UNCHANGED calls
          ELSE /\ error' = beginProcessing.error
               /\ isLoading' = beginProcessing.isLoading
               /\ resultImage' = beginProcessing.resultImage
               /\ last' = NoLast
               /\ calls' = Append(calls,
                     [pc |-> "readOriginal",
                      mode |-> mode, prompt |-> prompt,
                      backgroundImage |-> backgroundImage,
                      apiPrompt |-> apiPromptFor(mode, prompt),
                      originalImage |-> originalImage,
                      bgImage |-> bgImageFor(mode, backgroundImage),
                      parts |-> << >>, request |-> None, sent |-> 0])
    /\ UNCHANGED <<mode, originalImage, backgroundImage, prompt, apiKey>>

(* reader.onloadend for the original image. *)
ReadOriginalDone(i) ==
    /\ i \in 1..Len(calls)
    /\ calls[i].pc = "readOriginal"
    /\ LET c == calls[i]
           parts == <<fileToGenerativePart(c.originalImage)>>
       IN calls' = [calls EXCEPT ![i] =
              IF c.bgImage # None
              THEN [c EXCEPT !.pc = "readBackground", !.parts = parts]
              ELSE generateContent(c, pushText(parts, c.apiPrompt))]
    /\ UNCHANGED <<mode, originalImage, backgroundImage, prompt, resultImage,
                   isLoading, error, apiKey, last>>

(* reader.onloadend for the background image. *)
ReadBackgroundDone(i) ==
    /\ i \in 1..Len(calls)
    /\ calls[i].pc = "readBackground"
    /\ LET c == calls[i]
           parts == pushBackground(c.parts, fileToGenerativePart(c.bgImage[1]))
       IN calls' = [calls EXCEPT ![i] = generateContent(c, pushText(parts, c.apiPrompt))]
    /\ UNCHANGED <<mode, originalImage, backgroundImage, prompt, resultImage,
                   isLoading, error, apiKey, last>>

(* generateContent resolves: the scan of the response, then either         *)
(* setResultImage or the catch, then the finally.                          *)
ApiResolve(i, response) ==
    /\ i \in 1..Len(calls)
    /\ calls[i].pc = "generate"
    /\ LET found == scanParts(responseParts(response))
           noImage == [message |-> Some(MsgNoImage)]
       IN IF found # None
          THEN /\ resultImage' = found
               /\ UNCHANGED error
               /\ last' = [NoLast EXCEPT !.state = "fulfilled", !.value = found,
                                         !.response = Some(response),
                                         !.sent = calls[i].sent]
          ELSE /\ error' = Some(errorMessage(noImage))
               /\ UNCHANGED resultImage
               /\ last' = [NoLast EXCEPT !.state = "rejected", !.reason = Some(noImage),
                                         !.response = Some(response),
                                         !.sent = calls[i].sent]
    /\ isLoading' = FALSE
    /\ calls' = remove(calls, i)
    /\ UNCHANGED <<mode, originalImage, backgroundImage, prompt, apiKey>>

(* Mutant: the rejection is caught but isLoading is not reset. *)
ApiRejectNoFinally(i, e) ==
    /\ i \in 1..Len(calls)
    /\ calls[i].pc = "generate"
    /\ error' = Some(errorMessage(e))
    /\ last' = [NoLast EXCEPT !.state = "rejected", !.reason = Some(e),
                              !.sent = calls[i].sent]
    /\ calls' = remove(calls, i)
    /\ UNCHANGED <<mode, originalImage, backgroundImage, prompt, resultImage,
                   isLoading, apiKey>>

(* generateContent rejects: the catch, then the finally. *)
ApiReject(i, e) ==
    /\ i \in 1..Len(calls)
    /\ calls[i].pc = "generate"
    /\ error' = Some(errorMessage(e))
    /\ isLoading' = FALSE
    /\ last' = [NoLast EXCEPT !.state = "rejected", !.reason = Some(e),
                              !.sent = calls[i].sent]
    /\ calls' = remove(calls, i)
    /\ UNCHANGED <<mode, originalImage, backgroundImage, prompt, resultImage, apiKey>>

FileLists == {<< >>} \cup {<<f>> : f \in FileIds}

Next ==
    \/ \E files \in FileLists : UploadOriginal(files)
    \/ \E files \in FileLists : UploadBackground(files)
    \/ \E m \in OperationMode : SetMode(m)
    \/ \E p \in Prompts : SetPrompt(p)
    \/ Click
    \/ \E i \in 1..MaxInFlight : ReadOriginalDone(i)
    \/ \E i \in 1..MaxInFlight : ReadBackgroundDone(i)
    \/ \E i \in 1..MaxInFlight : \E response \in Responses : ApiResolve(i, response)
    \/ \E i \in 1..MaxInFlight : \E e \in ApiErrors : ApiReject(i, e)

Spec == Init /\ [][Next]_vars

(* A call that is suspended at an await goes on: the file read ends, the   *)
(* API call resolves or rejects.                                           *)
Resume ==
    \E i \in 1..Len(calls) :
        \/ ReadOriginalDone(i)
        \/ ReadBackgroundDone(i)
        \/ \E e \in ApiErrors : ApiReject(i, e)
        \/ \E response \in Responses : ApiResolve(i, response)

FairSpec == Spec /\ WF_vars(Resume)

---------------------------------------------------------------------------
(* Vocabulary of the properties, stated without the operators of the code. *)

InFlight == 1..Len(calls)

IsImagePart(part) ==
    /\ part.inlineData # None
    /\ LET mimeType == part.inlineData[1].mimeType
       IN /\ Len(mimeType) >= 6
          /\ mimeType[1] = "i" /\ mimeType[2] = "m" /\ mimeType[3] = "a"
          /\ mimeType[4] = "g" /\ mimeType[5] = "e" /\ mimeType[6] = "/"

(* The first candidate has content with parts. *)
HasFirstParts(response) ==
    /\ response.candidates # None
    /\ Len(response.candidates[1]) >= 1
    /\ response.candidates[1][1].content # None
    /\ response.candidates[1][1].content[1].parts # None

FirstParts(response) == response.candidates[1][1].content[1].parts[1]

HasImagePart(response) ==
    /\ HasFirstParts(response)
    /\ \E k \in 1..Len(FirstParts(response)) : IsImagePart(FirstParts(response)[k])

WhitespaceOnly(p) == \A k \in 1..Len(p) : p[k] \in Whitespace

(* Validation fails: AI_BACKGROUND with an empty or whitespace-only        *)
(* prompt, or CUSTOM_BACKGROUND with no background image.                  *)
ValidationFails(m, p, bg) ==
    \/ m = AI_BACKGROUND /\ WhitespaceOnly(p)
    \/ m = CUSTOM_BACKGROUND /\ bg = Null

Settled == last.state \in {"fulfilled", "rejected"}

---------------------------------------------------------------------------
(* C1: at most one processImage call is in flight; a call starts only      *)
(* while isLoading is false and originalImage is non-null; isLoading is    *)
(* true as long as a call is outstanding.                                  *)
C1_SingleInFlight ==
    /\ [](Len(calls) <= 1 /\ (calls # << >> => isLoading))
    /\ [][Len(calls') > Len(calls) => ~isLoading /\ originalImage # Null]_vars

(* A call waits for the API while the user has already picked another      *)
(* original image and another mode.                                        *)
C1_Witness ==
    /\ Len(calls) = 1
    /\ calls[1].pc = "generate"
    /\ originalImage # calls[1].originalImage
    /\ mode # calls[1].mode

(* C2: processImage returns 'data:<mimeType>;base64,<data>' of the first   *)
(* part of the first candidate that carries image inlineData; earlier      *)
(* parts are not images, later parts and other candidates play no role.    *)
C2_FirstImagePart ==
    last.state = "fulfilled" =>
        /\ last.response # None
        /\ HasFirstParts(last.response[1])
        /\ LET ps == FirstParts(last.response[1])
           IN \E k \in 1..Len(ps) :
                 /\ IsImagePart(ps[k])
                 /\ \A j \in 1..(k - 1) : ~IsImagePart(ps[j])
                 /\ last.value =
                       Some(<<"data:">> \o ps[k].inlineData[1].mimeType
                            \o <<";base64,">> \o ps[k].inlineData[1].data[1])
        /\ resultImage = last.value

(* The image returned came after a non-image inline part. *)
C2_Witness ==
    /\ last.state = "fulfilled"
    /\ last.response = Some([candidates |-> Some(<<Candidate(<<PlainPart, PngPart>>)>>)])
    /\ resultImage = Some(<<"data:">> \o ImagePng \o <<";base64,", "AAAA">>)

(* C3: the request holds exactly one text part and one or two inline       *)
(* parts, in the order original image, background image (if one was        *)
(* passed), text prompt.                                                   *)
C3_RequestOrder ==
    \A i \in InFlight :
        calls[i].request # None =>
            LET c == calls[i]
                ps == c.request[1]
                n == Len(ps)
            IN /\ n \in {2, 3}
               /\ n = 3 <=> c.bgImage # None
               /\ ps[1].text = None /\ ps[1].inlineData # None
               /\ ps[1].inlineData[1].mimeType = FileType(c.originalImage)
               /\ n = 3 => /\ ps[2].text = None /\ ps[2].inlineData # None
                           /\ ps[2].inlineData[1].mimeType = FileType(c.bgImage[1])
               /\ ps[n].text # None /\ ps[n].inlineData = None
               /\ Cardinality({k \in 1..n : ps[k].text # None}) = 1

(* A request with a background image of another type than the original. *)
C3_Witness ==
    \E i \in InFlight :
        /\ calls[i].request # None
        /\ calls[i].bgImage # None
        /\ calls[i].bgImage[1] # calls[i].originalImage

(* C4: when the processImage call rejects, error is the rejection's        *)
(* message, or the fallback when the message is empty, resultImage stays   *)
(* null and isLoading is false again.                                      *)
C4_RejectionShown ==
    last.state = "rejected" =>
        LET message == last.reason[1].message
        IN /\ error = IF message # None /\ message # Some("")
                      THEN message
                      ELSE Some(MsgUnexpected)
           /\ resultImage = None
           /\ ~isLoading

(* A rejection with an empty message. *)
C4_Witness ==
    /\ last.state = "rejected"
    /\ last.reason = Some([message |-> Some("")])

(* C5 as stated: at most one request per click, exactly one whenever       *)
(* validation passes, none when it fails, and then an error is set and     *)
(* isLoading is false.                                                     *)
C5_Original ==
    /\ \A i \in InFlight :
          /\ calls[i].sent <= 1
          /\ ~ValidationFails(calls[i].mode, calls[i].prompt, calls[i].backgroundImage)
    /\ Settled => last.sent = 1
    /\ last.state = "invalid" =>
          /\ ValidationFails(last.closure[1].mode, last.closure[1].prompt,
                             last.closure[1].backgroundImage)
          /\ last.sent = 0
          /\ error # None
          /\ ~isLoading

(* C5 amended: exactly one request when validation passes and API_KEY is   *)
(* set, none when API_KEY is not set.                                      *)
C5_OneRequestPerClick ==
    /\ \A i \in InFlight :
          /\ calls[i].sent <= 1
          /\ calls[i].sent = 1 <=> calls[i].pc = "generate"
          /\ ~ValidationFails(calls[i].mode, calls[i].prompt, calls[i].backgroundImage)
    /\ Settled => last.sent = IF apiKey THEN 1 ELSE 0
    /\ last.state = "invalid" =>
          /\ ValidationFails(last.closure[1].mode, last.closure[1].prompt,
                             last.closure[1].backgroundImage)
          /\ last.sent = 0
          /\ error \in {Some(MsgNoPrompt), Some(MsgNoBackground)}
          /\ ~isLoading

(* A click in AI_BACKGROUND mode with a whitespace-only prompt was turned  *)
(* down.                                                                   *)
C5_Witness ==
    /\ last.state = "invalid"
    /\ last.closure[1].mode = AI_BACKGROUND
    /\ last.closure[1].prompt # << >>

C7_ModeDecidesRequest ==
    \A i \in InFlight :
        calls[i].request # None =>
            LET c == calls[i]
                ps == c.request[1]
                text == ps[Len(ps)].text
                inline == {k \in 1..Len(ps) : ps[k].inlineData # None}
            IN /\ Cardinality(inline) = 2 <=> c.mode = CUSTOM_BACKGROUND
               /\ c.mode # CUSTOM_BACKGROUND => Cardinality(inline) = 1
               /\ c.mode = AI_BACKGROUND =>
                     text = Some(AiPromptHead \o c.prompt \o AiPromptTail)
               /\ c.mode = TRANSPARENT => text = Some(TransparentPrompt)
               /\ c.mode = CUSTOM_BACKGROUND => text = Some(CustomPrompt)

(* A TRANSPARENT request made with a background image uploaded and a       *)
(* prompt typed before; the mode has changed since the click.              *)
C7_Witness ==
    \E i \in InFlight :
        /\ calls[i].request # None
        /\ calls[i].mode = TRANSPARENT
        /\ calls[i].backgroundImage # Null
        /\ calls[i].prompt # << >>
        /\ mode = CUSTOM_BACKGROUND

(* C8: isLoading, once true, becomes false again, and at that point        *)
(* exactly one of resultImage and error is non-null: resultImage when the  *)
(* call resolved, error when it rejected.                                  *)
C8_LoadingEnds ==
    /\ isLoading ~> ~isLoading
    /\ [][(isLoading /\ ~isLoading') =>
             /\ (resultImage' # None) # (error' # None)
             /\ Settled'
             /\ last'.state = "fulfilled" => resultImage' # None
             /\ last'.state = "rejected" => error' # None]_vars

(* Loading has ended with a result. *)
C8_Witness ==
    /\ ~isLoading
    /\ last.state = "fulfilled"
    /\ resultImage # None
    /\ error = None

(* C9: resultImage and error are never both non-null. *)
C9_ResultXorError == ~(resultImage # None /\ error # None)

(* A result is displayed and the next click will fail validation. *)
C9_Witness ==
    /\ resultImage # None
    /\ ~isProcessButtonDisabled
    /\ mode = AI_BACKGROUND
    /\ WhitespaceOnly(prompt)

(* C10: originalImage never becomes null again, the button is disabled     *)
(* while it is null, and the missing-original error is never displayed.    *)
C10_OriginalStays ==
    /\ [][originalImage # Null => originalImage' # Null]_vars
    /\ [](originalImage = Null => isProcessButtonDisabled)
    /\ [](error # Some(MsgNoOriginal) /\ last.state # "noOriginal")

(* An original image is set and an error of another kind is displayed. *)
C10_Witness ==
    /\ originalImage # Null
    /\ error = Some(MsgNoBackground)

===========================================================================
